---- MODULE Spec2Model ----
(***************************************************************************)
(* Model of src/src/main.rs: the teloxide command handler `answer` and the *)
(* typing-indicator task it spawns for Command::Qwen.                      *)
(*                                                                         *)
(* One record per handler invocation.  `sent` is the log of the            *)
(* bot.send_message requests the handler issues (the text handed to the    *)
(* chat transport); the transport's own result only decides the value the  *)
(* handler returns (`ret`, through the `?` operator).                      *)
(*                                                                         *)
(* Time is discrete.  Steps of the spawned task that do not await (the     *)
(* flag load at the top of the loop) take no time: Tick is disabled while  *)
(* one is pending.  tokio::time::sleep takes exactly WaitInterval ticks,   *)
(* a send_chat_action call between 0 and MaxSendLatency ticks.  The        *)
(* handler's own awaits (HTTP send, body read, send_message) take any      *)
(* number of ticks.  The AtomicBool is read and written atomically.        *)
(***************************************************************************)
EXTENDS Integers, Sequences, FiniteSets, TLC

VARIABLES cs

vars == <<cs>>

\* ---------------------------------------------------------------- bounds
\* longest latency of one send_chat_action call, in ticks
MaxSendLatency == 2
\* the typing-signal counters saturate here
MaxSignals == 2

\* ------------------------------------------------------ program constants
\* tokio::time::Duration::from_secs(5)
WaitInterval == 5

\* handler invocations; Dispatched are the ones Command::repl starts
Cmds == {1, 2}
Dispatched == {1}
Commands == {"Help", "Health", "Qwen"}
\* HTTP status codes the backend answers with
Statuses == {200, 404, 500, 502, 503}

Min(a, b) == IF a < b THEN a ELSE b

\* what awaiting an HTTP request can give: Err(e), or a response with a status
SendResults == {[ok |-> FALSE, status |-> 0]} \cup {[ok |-> TRUE, status |-> st] : st \in Statuses}

\* --------------------------------------------------------- serde_json::Value
JNull == [k |-> "null"]
JStr(s) == [k |-> "str", s |-> s]
JNum(n) == [k |-> "num", n |-> n]
JArr(a) == [k |-> "arr", a |-> a]
JObj(f) == [k |-> "obj", f |-> f]

\* Value's Index<&str>: Null unless an object holding the key
IndexKey(v, key) ==
    IF v.k = "obj" /\ key \in DOMAIN v.f THEN v.f[key] ELSE JNull

\* Value's Index<usize>: Null unless an array long enough (0-based)
IndexPos(v, i) ==
    IF v.k = "arr" /\ i + 1 <= Len(v.a) THEN v.a[i + 1] ELSE JNull

\* Value::as_str
AsStr(v) == IF v.k = "str" THEN [some |-> TRUE, s |-> v.s] ELSE [some |-> FALSE, s |-> ""]

\* --------------------------------------------------------- response bodies
BodyHello == "{\"choices\":[{\"message\":{\"content\":\"hello\"}}]}"
BodyEmptyContent == "{\"choices\":[{\"message\":{\"content\":\"\"}}]}"
BodyNoChoices == "{\"choices\":[]}"
BodyNumContent == "{\"choices\":[{\"message\":{\"content\":42}}]}"
BodyBackendError == "{\"error\":{\"message\":\"hello\"}}"
BodyNotJson == "<html>Bad Gateway</html>"
BodyTruncated == "{\"choices\":[{\"message\":{\"content\":\"hel"
BodyOkSlots == "{\"status\":\"ok\",\"slots_idle\":3,\"slots_processing\":1}"
BodyOk == "{\"status\":\"ok\"}"
BodyNoSlot == "{\"status\":\"no slot available\",\"slots_idle\":0,\"slots_processing\":2}"
BodyNoSlotNull == "{\"status\":\"no slot available\",\"slots_idle\":null}"
BodyLoading == "{\"status\":\"loading model\"}"
BodyError == "{\"status\":\"error\"}"
BodyOther == "{\"status\":\"something else\"}"
BodyNoStatus == "{\"slots_idle\":1}"
BodyNegSlots == "{\"status\":\"ok\",\"slots_idle\":-1}"
BodyStatusNum == "{\"status\":200}"

QwenBodies ==
    {BodyHello, BodyEmptyContent, BodyNoChoices, BodyNumContent, BodyBackendError,
     BodyNotJson, BodyTruncated, BodyOther}
HealthBodies ==
    {BodyOkSlots, BodyOk, BodyNoSlot, BodyNoSlotNull, BodyLoading, BodyError,
     BodyOther, BodyNoStatus, BodyNegSlots, BodyStatusNum, BodyNotJson, BodyHello}
Bodies == QwenBodies \cup HealthBodies

\* what awaiting response.text() can give: Err(e), or the body
ReadResults(bodies) ==
    {[ok |-> FALSE, text |-> ""]} \cup {[ok |-> TRUE, text |-> b] : b \in bodies}

Parsed(v) == [ok |-> TRUE, v |-> v]
ParseError == [ok |-> FALSE, v |-> JNull]

\* serde_json::from_str::<Value> on the bodies above
ParseJson(text) ==
    CASE text = BodyHello ->
           Parsed(JObj([choices |-> JArr(<<JObj([message |-> JObj([content |-> JStr("hello")])])>>)]))
      [] text = BodyEmptyContent ->
           Parsed(JObj([choices |-> JArr(<<JObj([message |-> JObj([content |-> JStr("")])])>>)]))
      [] text = BodyNoChoices -> Parsed(JObj([choices |-> JArr(<<>>)]))
      [] text = BodyNumContent ->
           Parsed(JObj([choices |-> JArr(<<JObj([message |-> JObj([content |-> JNum(42)])])>>)]))
      [] text = BodyBackendError ->
           Parsed(JObj([error |-> JObj([message |-> JStr("hello")])]))
      [] text = BodyOkSlots ->
           Parsed(JObj([status |-> JStr("ok"), slots_idle |-> JNum(3), slots_processing |-> JNum(1)]))
      [] text = BodyOk -> Parsed(JObj([status |-> JStr("ok")]))
      [] text = BodyNoSlot ->
           Parsed(JObj([status |-> JStr("no slot available"), slots_idle |-> JNum(0),
                        slots_processing |-> JNum(2)]))
      [] text = BodyNoSlotNull ->
           Parsed(JObj([status |-> JStr("no slot available"), slots_idle |-> JNull]))
      [] text = BodyLoading -> Parsed(JObj([status |-> JStr("loading model")]))
      [] text = BodyError -> Parsed(JObj([status |-> JStr("error")]))
      [] text = BodyOther -> Parsed(JObj([status |-> JStr("something else")]))
      [] text = BodyNoStatus -> Parsed(JObj([slots_idle |-> JNum(1)]))
      [] text = BodyNegSlots -> Parsed(JObj([status |-> JStr("ok"), slots_idle |-> JNum(0 - 1)]))
      [] text = BodyStatusNum -> Parsed(JObj([status |-> JNum(200)]))
      [] OTHER -> ParseError

\* ------------------------------------------------- Command::Qwen, the reply
MsgSendError == "An error occurred while sending the request."
\* MsgReadError with the text of the send failure pasted in
MsgReadErrorPasted == "An error occurred while sending the request."

MsgReadError == "An error occurred while reading the response."
MsgParseError == "An error occurred while parsing the response."

\* QwenContent reading choices[1] instead of choices[0]
QwenContentSecondChoice(v) ==
    AsStr(IndexKey(IndexKey(IndexPos(IndexKey(v, "choices"), 1), "message"), "content"))

\* parsed_response["choices"][0]["message"]["content"].as_str()
QwenContent(v) ==
    AsStr(IndexKey(IndexKey(IndexPos(IndexKey(v, "choices"), 0), "message"), "content"))

\* the text handed to send_message once the body has been read
QwenReply(text) ==
    LET parsed == ParseJson(text) IN
    IF ~parsed.ok THEN MsgParseError
    ELSE LET content == QwenContent(parsed.v) IN
         IF content.some THEN content.s ELSE MsgParseError

\* ---------------------------------------------------------- Command::Health
MsgHealthSendError == "An error occurred while sending the health check request."
MsgHealthReadError == "An error occurred while reading the health check response."

None == [some |-> FALSE, n |-> 0]
Some(n) == [some |-> TRUE, n |-> n]
UnwrapOr(o, d) == IF o.some THEN o.n ELSE d

\* serde's Option<u32> field: absent or null is None, a u32 is Some, the rest fails
\* (every number of the bodies above is below 2^32, so only the sign decides)
OptionU32(v, key) ==
    IF key \notin DOMAIN v.f THEN [ok |-> TRUE, o |-> None]
    ELSE LET x == v.f[key] IN
         IF x.k = "null" THEN [ok |-> TRUE, o |-> None]
         ELSE IF x.k = "num" /\ x.n >= 0 THEN [ok |-> TRUE, o |-> Some(x.n)]
         ELSE [ok |-> FALSE, o |-> None]

\* DeserializeHealth with defaults in place of every failure
DeserializeHealthLenient(text) ==
    LET parsed == ParseJson(text)
        dflt == [ok |-> TRUE, status |-> "", slots_idle |-> None, slots_processing |-> None]
    IN IF ~parsed.ok THEN dflt
       ELSE LET v == parsed.v IN
            IF v.k # "obj" THEN dflt
            ELSE IF "status" \notin DOMAIN v.f THEN dflt
            ELSE IF v.f["status"].k # "str" THEN dflt
            ELSE [dflt EXCEPT !.status = v.f["status"].s]

\* serde_json::from_str::<HealthResponse>: ok is FALSE where the code's unwrap panics
DeserializeHealth(text) ==
    LET parsed == ParseJson(text)
        bad == [ok |-> FALSE, status |-> "", slots_idle |-> None, slots_processing |-> None]
    IN IF ~parsed.ok THEN bad
       ELSE LET v == parsed.v IN
            IF v.k # "obj" THEN bad
            ELSE IF "status" \notin DOMAIN v.f THEN bad
            ELSE IF v.f["status"].k # "str" THEN bad
            ELSE LET idle == OptionU32(v, "slots_idle")
                     proc == OptionU32(v, "slots_processing")
                 IN IF ~idle.ok \/ ~proc.ok THEN bad
                    ELSE [ok |-> TRUE, status |-> v.f["status"].s,
                          slots_idle |-> idle.o, slots_processing |-> proc.o]

\* StatusCode::canonical_reason
CanonicalReason(code) ==
    CASE code = 200 -> "OK"
      [] code = 404 -> "Not Found"
      [] code = 500 -> "Internal Server Error"
      [] code = 502 -> "Bad Gateway"
      [] code = 503 -> "Service Unavailable"
      [] OTHER -> "<unknown status code>"

\* Display of StatusCode, as format!("{}", status) prints it
StatusDisplay(code) == ToString(code) \o " " \o CanonicalReason(code)

SlotsText(h) ==
    "Slots idle: " \o ToString(UnwrapOr(h.slots_idle, 0)) \o
    ", Slots processing: " \o ToString(UnwrapOr(h.slots_processing, 0))

\* match health.status.as_str() under StatusCode::OK
HealthOk(h) ==
    CASE h.status = "ok" -> "Everything is working fine. " \o SlotsText(h)
      [] h.status = "no slot available" -> "No slots are currently available. " \o SlotsText(h)
      [] OTHER -> "Unknown status: " \o h.status

\* HealthUnavailable with the arms of StatusCode::OK pasted in
HealthUnavailableAsOk(h) == HealthOk(h)

\* match health.status.as_str() under StatusCode::SERVICE_UNAVAILABLE
HealthUnavailable(h) ==
    CASE h.status = "loading model" -> "The model is still being loaded. Please wait."
      [] h.status = "no slot available" -> "No slots are currently available. " \o SlotsText(h)
      [] OTHER -> "Unknown status: " \o h.status

\* match health.status.as_str() under StatusCode::INTERNAL_SERVER_ERROR
HealthInternal(h) ==
    CASE h.status = "error" -> "An error occurred while loading the model."
      [] OTHER -> "Unknown status: " \o h.status

\* HealthMessage with the body deserialized before the match on the status
HealthMessageParseFirst(status, text) ==
    LET h == DeserializeHealth(text) IN
    IF ~h.ok THEN [panic |-> TRUE, text |-> ""]
    ELSE [panic |-> FALSE,
          text |-> CASE status = 200 -> HealthOk(h)
                     [] status = 503 -> HealthUnavailable(h)
                     [] status = 500 -> HealthInternal(h)
                     [] OTHER -> "Unexpected status: " \o StatusDisplay(status)]

\* let message = match status { ... }: panic is TRUE where from_str(..).unwrap() panics
HealthMessage(status, text) ==
    IF status \in {200, 503, 500}
    THEN LET h == DeserializeHealth(text) IN
         IF ~h.ok THEN [panic |-> TRUE, text |-> ""]
         ELSE [panic |-> FALSE,
               text |-> CASE status = 200 -> HealthOk(h)
                          [] status = 503 -> HealthUnavailable(h)
                          [] OTHER -> HealthInternal(h)]
    ELSE [panic |-> FALSE, text |-> "Unexpected status: " \o StatusDisplay(status)]

\* ------------------------------------------------------------ Command::Help
\* Command::descriptions().to_string()
HelpText ==
    "This bot is 100% hosted on a 512MB Raspberry Pi Zero 2 W. Expect low performance and low quality.\n\nThese commands are supported:\n\n/qwen - LLM request\n/help - Prints this help\n/health - Health check"

\* ------------------------------------------------------------------- state
\* a handler invocation as Command::repl starts it
Fresh(cmd) ==
    [cmd |-> cmd,            \* the parsed Command
     pc |-> "start",         \* where `answer` is
     sendRes |-> "none",     \* result of the HTTP send: none, ok, err
     status |-> 0,           \* response.status()
     readRes |-> "none",     \* result of response.text(): none, ok, err
     body |-> "",            \* the body text read
     out |-> "",             \* the text of the send_message in flight
     sent |-> <<>>,          \* send_message requests issued
     ret |-> "none",         \* what `answer` returned: none, Ok, Err
     posts |-> 0,            \* HTTP requests issued
     flag |-> FALSE,         \* the Arc<AtomicBool>
     stores |-> 0,           \* flag.store calls made
     sig |-> "none",         \* where the spawned task is
     sleepLeft |-> 0,        \* ticks left of tokio::time::sleep
     sendAge |-> 0,          \* ticks the send_chat_action has been in flight
     sigOk |-> TRUE,         \* whether that send_chat_action delivers
     typing |-> 0,           \* typing signals emitted
     late |-> 0,             \* typing signals emitted with the flag set
     callAge |-> 0,          \* ticks from client.post(..).send() to its result
     stopAge |-> 0]          \* ticks the task has lived since flag.store(true)

Absent == [Fresh("Help") EXCEPT !.pc = "absent"]

\* the timers saturate one past the values the properties compare them with
CallAgeCap == WaitInterval + 1
StopAgeCap == WaitInterval + MaxSendLatency + 1

Set(c, r) == cs' = [cs EXCEPT ![c] = r]

Init ==
    \E cmd \in [Dispatched -> Commands] :
        cs = [c \in Cmds |-> IF c \in Dispatched THEN Fresh(cmd[c]) ELSE Absent]

\* ------------------------------------------------------------ Command::Help
\* bot.send_message(msg.chat.id, Command::descriptions().to_string()).await?
Help(c) ==
    /\ cs[c].pc = "start"
    /\ cs[c].cmd = "Help"
    /\ Set(c, [cs[c] EXCEPT !.out = HelpText, !.pc = "reply"])

\* ------------------------------------------------------------ Command::Qwen
\* the value the flag is created with: AtomicBool::new(false)
NewFlag == FALSE

\* QwenSpawn with the spawn forgotten: the request goes out with no task running
QwenSpawnMissing(c) ==
    /\ cs[c].pc = "start"
    /\ cs[c].cmd = "Qwen"
    /\ Set(c, [cs[c] EXCEPT !.flag = NewFlag, !.posts = @ + 1, !.callAge = 0,
                            !.pc = "posted"])

\* let flag = ...; tokio::spawn(async move { loop { ... } })
QwenSpawn(c) ==
    /\ cs[c].pc = "start"
    /\ cs[c].cmd = "Qwen"
    /\ Set(c, [cs[c] EXCEPT !.flag = NewFlag, !.sig = "check", !.pc = "spawned"])

\* QwenPost with a placeholder message sent while the request goes out
QwenPostAck(c) ==
    /\ cs[c].pc = "spawned"
    /\ Set(c, [cs[c] EXCEPT !.posts = @ + 1, !.callAge = 0, !.pc = "posted",
                            !.sent = Append(@, "Thinking...")])

\* client.post(&url).headers(headers).json(&body).send(): the request goes out
QwenPost(c) ==
    /\ cs[c].pc = "spawned"
    /\ Set(c, [cs[c] EXCEPT !.posts = @ + 1, !.callAge = 0, !.pc = "posted"])

\* StopSignaler with the store made on the Ok path only
StopSignalerOnOk(s, res) ==
    IF res.ok THEN [s EXCEPT !.flag = TRUE, !.stores = @ + 1, !.stopAge = 0] ELSE s

\* flag.store(true, Ordering::Relaxed), whatever `res` is
StopSignaler(s, res) ==
    [s EXCEPT !.flag = TRUE, !.stores = @ + 1, !.stopAge = 0]

\* QwenSendResolvedFrom with one retry of the request after a failed send
QwenSendResolvedRetry(c, results) ==
    /\ cs[c].pc = "posted"
    /\ \E res \in results :
          LET s == StopSignaler(cs[c], res) IN
          IF ~res.ok
          THEN IF cs[c].posts < 2
               THEN Set(c, [s EXCEPT !.pc = "spawned"])
               ELSE Set(c, [s EXCEPT !.sendRes = "err", !.out = MsgSendError, !.pc = "reply"])
          ELSE Set(c, [s EXCEPT !.sendRes = "ok", !.status = res.status, !.pc = "read"])

\* QwenSendResolvedFrom with a response that is not 200 treated as a failed send
QwenSendResolvedCheckStatus(c, results) ==
    /\ cs[c].pc = "posted"
    /\ \E res \in results :
          LET s == StopSignaler(cs[c], res) IN
          IF ~res.ok \/ res.status # 200
          THEN Set(c, [s EXCEPT !.sendRes = "err", !.status = res.status,
                               !.out = MsgSendError, !.pc = "reply"])
          ELSE Set(c, [s EXCEPT !.sendRes = "ok", !.status = res.status, !.pc = "read"])

\* .send().await resolves with one of `results`; the flag is stored; match res { Ok / Err }
QwenSendResolvedFrom(c, results) ==
    /\ cs[c].pc = "posted"
    /\ \E res \in results :
          LET s == StopSignaler(cs[c], res) IN
          IF ~res.ok
          THEN Set(c, [s EXCEPT !.sendRes = "err", !.out = MsgSendError, !.pc = "reply"])
          ELSE Set(c, [s EXCEPT !.sendRes = "ok", !.status = res.status, !.pc = "read"])

QwenSendResolved(c) == QwenSendResolvedFrom(c, SendResults)

\* res.text().await resolves with one of `results`; from_str::<Value>; the
\* content path; the reply
QwenBodyReadFrom(c, results) ==
    /\ cs[c].pc = "read"
    /\ \E res \in results :
          IF ~res.ok
          THEN Set(c, [cs[c] EXCEPT !.readRes = "err", !.out = MsgReadError, !.pc = "reply"])
          ELSE Set(c, [cs[c] EXCEPT !.readRes = "ok", !.body = res.text,
                                    !.out = QwenReply(res.text), !.pc = "reply"])

QwenBodyRead(c) == QwenBodyReadFrom(c, ReadResults(QwenBodies))

\* ---------------------------------------------------------- Command::Health
\* reqwest::get(..).await resolves; match response { Ok / Err }; response.status()
HealthGet(c) ==
    /\ cs[c].pc = "start"
    /\ cs[c].cmd = "Health"
    /\ \E res \in SendResults :
          IF ~res.ok
          THEN Set(c, [cs[c] EXCEPT !.posts = @ + 1, !.sendRes = "err",
                                    !.out = MsgHealthSendError, !.pc = "reply"])
          ELSE Set(c, [cs[c] EXCEPT !.posts = @ + 1, !.sendRes = "ok",
                                    !.status = res.status, !.pc = "hread"])

\* response.text().await resolves; match body { Ok / Err }; let message = match status
HealthBodyRead(c) ==
    /\ cs[c].pc = "hread"
    /\ \E res \in ReadResults(HealthBodies) :
          IF ~res.ok
          THEN Set(c, [cs[c] EXCEPT !.readRes = "err", !.out = MsgHealthReadError,
                                    !.pc = "reply"])
          ELSE LET m == HealthMessage(cs[c].status, res.text) IN
               IF m.panic
               THEN Set(c, [cs[c] EXCEPT !.readRes = "ok", !.body = res.text,
                                         !.pc = "panicked"])
               ELSE Set(c, [cs[c] EXCEPT !.readRes = "ok", !.body = res.text,
                                         !.out = m.text, !.pc = "reply"])

\* ------------------------------------------------- send_message and return
\* bot.send_message(msg.chat.id, text).reply_to_message_id(msg.id).await? ; Ok(())
Reply(c) ==
    /\ cs[c].pc = "reply"
    /\ \E ok \in BOOLEAN :
          Set(c, [cs[c] EXCEPT !.sent = Append(@, cs[c].out),
                               !.ret = IF ok THEN "Ok" ELSE "Err",
                               !.pc = "done"])

\* ------------------------------------------------- the typing-indicator task
\* SigCheck with the flag never looked at
SigCheckBlind(c) ==
    /\ cs[c].sig = "check"
    /\ Set(c, [cs[c] EXCEPT !.sig = "sleep", !.sleepLeft = WaitInterval])

\* SigCheck with a sleep of two intervals
SigCheckSlow(c) ==
    /\ cs[c].sig = "check"
    /\ IF cs[c].flag
       THEN Set(c, [cs[c] EXCEPT !.sig = "exited"])
       ELSE Set(c, [cs[c] EXCEPT !.sig = "sleep", !.sleepLeft = 2 * WaitInterval])

\* SigCheck reading one flag shared by all commands
SigCheckShared(c) ==
    /\ cs[c].sig = "check"
    /\ IF \E d \in Cmds : cs[d].flag
       THEN Set(c, [cs[c] EXCEPT !.sig = "exited"])
       ELSE Set(c, [cs[c] EXCEPT !.sig = "sleep", !.sleepLeft = WaitInterval])

\* if flag_clone.load(Ordering::Relaxed) { break; } else the sleep starts
SigCheck(c) ==
    /\ cs[c].sig = "check"
    /\ IF cs[c].flag
       THEN Set(c, [cs[c] EXCEPT !.sig = "exited"])
       ELSE Set(c, [cs[c] EXCEPT !.sig = "sleep", !.sleepLeft = WaitInterval])

\* the sleep is over; bot_clone.send_chat_action(.., Typing) goes out, the flag
\* not being looked at; the signal counts as emitted when the call delivers it
SigWake(c) ==
    /\ cs[c].sig = "sleep"
    /\ cs[c].sleepLeft = 0
    /\ \E ok \in BOOLEAN :
          Set(c, [cs[c] EXCEPT
                    !.sig = "sending", !.sendAge = 0, !.sigOk = ok,
                    !.typing = IF ok THEN Min(@ + 1, MaxSignals) ELSE @,
                    !.late = IF ok /\ cs[c].flag THEN Min(@ + 1, MaxSignals) ELSE @])

\* SigSendReturn with the panic taking the handler down with the task
SigSendReturnAbort(c) ==
    /\ cs[c].sig = "sending"
    /\ Set(c, [cs[c] EXCEPT !.sig = IF cs[c].sigOk THEN "check" ELSE "panicked",
                            !.pc = IF cs[c].sigOk THEN @ ELSE "panicked",
                            !.sendAge = 0, !.sigOk = TRUE])

\* SigSendReturn going straight into the next sleep, the flag not loaded
SigSendReturnNoCheck(c) ==
    /\ cs[c].sig = "sending"
    /\ Set(c, [cs[c] EXCEPT !.sig = IF cs[c].sigOk THEN "sleep" ELSE "panicked",
                            !.sleepLeft = IF cs[c].sigOk THEN WaitInterval ELSE 0,
                            !.sendAge = 0, !.sigOk = TRUE])

\* send_chat_action(..).await.unwrap(): back to the top of the loop, or a panic
SigSendReturn(c) ==
    /\ cs[c].sig = "sending"
    /\ Set(c, [cs[c] EXCEPT !.sig = IF cs[c].sigOk THEN "check" ELSE "panicked",
                            !.sendAge = 0, !.sigOk = TRUE])

\* ---------------------------------------------------------------------- time
\* time may pass for the task of c: nothing of it is due
MayWait(s) ==
    /\ s.sig # "check"
    /\ s.sig = "sleep" => s.sleepLeft > 0
    /\ s.sig = "sending" => s.sendAge < MaxSendLatency

Ticked(s) ==
    [s EXCEPT !.sleepLeft = IF s.sig = "sleep" THEN @ - 1 ELSE @,
              !.sendAge = IF s.sig = "sending" THEN @ + 1 ELSE @,
              !.callAge = IF s.pc = "posted" THEN Min(@ + 1, CallAgeCap) ELSE @,
              !.stopAge = IF s.flag /\ s.sig \in {"sleep", "sending"}
                          THEN Min(@ + 1, StopAgeCap) ELSE @]

\* one time unit passes
Tick ==
    /\ \A c \in Cmds : MayWait(cs[c])
    /\ cs' = [c \in Cmds |-> Ticked(cs[c])]
    /\ cs' # cs

Next ==
    \/ \E c \in Cmds : Help(c)
    \/ \E c \in Cmds : QwenSpawn(c)
    \/ \E c \in Cmds : QwenPost(c)
    \/ \E c \in Cmds : QwenSendResolved(c)
    \/ \E c \in Cmds : QwenBodyRead(c)
    \/ \E c \in Cmds : HealthGet(c)
    \/ \E c \in Cmds : HealthBodyRead(c)
    \/ \E c \in Cmds : Reply(c)
    \/ \E c \in Cmds : SigCheck(c)
    \/ \E c \in Cmds : SigWake(c)
    \/ \E c \in Cmds : SigSendReturn(c)
    \/ Tick

Spec == Init /\ [][Next]_vars

\* --------------------------------------------- two commands handled at once
\* Two Command::Qwen invocations run concurrently, each with its own flag and
\* task.  No clock is shared between them: a sleep simply ends (SleepOver).
\* The backend's answers are drawn from the smaller sets below.
ConcSendResults == {[ok |-> FALSE, status |-> 0], [ok |-> TRUE, status |-> 200]}
ConcReadResults == ReadResults({BodyHello, BodyNotJson, BodyNoChoices})

InitConc == cs = [c \in Cmds |-> Fresh("Qwen")]

\* tokio::time::sleep(..).await completes
SleepOver(c) ==
    /\ cs[c].sig = "sleep"
    /\ cs[c].sleepLeft > 0
    /\ Set(c, [cs[c] EXCEPT !.sleepLeft = 0])

NextConc ==
    \/ \E c \in Cmds : QwenSpawn(c)
    \/ \E c \in Cmds : QwenPost(c)
    \/ \E c \in Cmds : QwenSendResolvedFrom(c, ConcSendResults)
    \/ \E c \in Cmds : QwenBodyReadFrom(c, ConcReadResults)
    \/ \E c \in Cmds : Reply(c)
    \/ \E c \in Cmds : SigCheck(c)
    \/ \E c \in Cmds : SleepOver(c)
    \/ \E c \in Cmds : SigWake(c)
    \/ \E c \in Cmds : SigSendReturn(c)

SpecConc == InitConc /\ [][NextConc]_vars

\* the tokio runtime polls a task that is ready, timers fire, and every
\* send_chat_action call returns
FairSpec ==
    /\ Spec
    /\ WF_vars(Tick)
    /\ \A c \in Cmds : WF_vars(SigCheck(c)) /\ WF_vars(SigWake(c)) /\ WF_vars(SigSendReturn(c))

\* the task of c has ended: it was never spawned, it left the loop, or it panicked
Ended(s) == s.sig \in {"none", "exited", "panicked"}
\* `answer` is over for c: it returned, or it panicked
Over(s) == s.pc \in {"done", "panicked"}

\* ------------------------------------------------------------------ claims

\* C1: for every command and every backend behaviour, one run of `answer` ends
\* having sent exactly one text message: never two, and never none once it is over.
C1_ExactlyOneMessage ==
    \A c \in Dispatched :
        /\ Len(cs[c].sent) <= 1
        /\ Over(cs[c]) => Len(cs[c].sent) = 1

\* C2: the one message of a Qwen command is decided by the first stage that
\* fails, in the order send, read, parse, content path; with no failure it is
\* the content string; no stage runs after a failing one.
C2_InferReply ==
    \A c \in Dispatched :
        LET s == cs[c] IN
        (s.cmd = "Qwen" /\ s.pc = "done") =>
            /\ Len(s.sent) = 1
            /\ s.sendRes = "err" =>
                 /\ s.sent[1] = "An error occurred while sending the request."
                 /\ s.readRes = "none" /\ s.body = ""
            /\ s.sendRes = "ok" /\ s.readRes = "err" =>
                 /\ s.sent[1] = "An error occurred while reading the response."
                 /\ s.body = ""
            /\ s.readRes = "ok" =>
                 /\ s.sendRes = "ok"
                 /\ s.body \in {BodyNotJson, BodyTruncated} =>
                      s.sent[1] = "An error occurred while parsing the response."
                 /\ s.body \in {BodyNoChoices, BodyNumContent, BodyBackendError, BodyOther} =>
                      s.sent[1] = "An error occurred while parsing the response."
                 /\ s.body = BodyHello => s.sent[1] = "hello"
                 /\ s.body = BodyEmptyContent => s.sent[1] = ""
                 /\ s.body \in {BodyNotJson, BodyTruncated, BodyNoChoices, BodyNumContent,
                                BodyBackendError, BodyOther, BodyHello, BodyEmptyContent}
            /\ s.sendRes \in {"ok", "err"}
            /\ s.sendRes = "ok" => s.readRes \in {"ok", "err"}

C2_Witness ==
    \E c \in Dispatched :
        /\ cs[c].cmd = "Qwen" /\ cs[c].pc = "done"
        /\ cs[c].body = BodyHello /\ cs[c].sent = <<"hello">>

\* C3: on the success path and on every failure path of the inference call the
\* flag is stored exactly once: it goes from false to true once, only in a step
\* of the command's main flow (the one in which the HTTP send resolves), and is
\* never reset.
C3_StopExactlyOnce ==
    /\ [](\A c \in Dispatched :
            LET s == cs[c] IN
            s.cmd = "Qwen" =>
                /\ s.stores <= 1
                /\ s.flag <=> s.stores = 1
                /\ s.pc \in {"read", "reply", "done"} => s.stores = 1
                /\ s.pc \in {"start", "spawned", "posted"} => s.stores = 0)
    /\ [][\A c \in Dispatched :
            /\ cs[c].flag => cs'[c].flag
            /\ cs'[c].flag # cs[c].flag =>
                 /\ cs[c].pc = "posted" /\ cs'[c].pc \in {"read", "reply"}
                 /\ cs'[c].sig = cs[c].sig]_vars

C3_Witness ==
    \E c \in Dispatched :
        /\ cs[c].cmd = "Qwen" /\ cs[c].pc = "done" /\ cs[c].sendRes = "err"
        /\ cs[c].flag /\ cs[c].stores = 1

\* C4: no typing signal is emitted at a moment when the command's flag is
\* already set.
C4_NoSignalAfterStop ==
    \A c \in Dispatched : cs[c].late = 0

\* C5: the flag is set only after the InferenceResult has been determined (the
\* reply text is known), never while the body is still to be read or parsed.
C5_StopAfterResult ==
    \A c \in Dispatched : cs[c].flag => cs[c].pc \in {"reply", "done"}

\* C6: the task is spawned, with the flag false, before the HTTP request is
\* issued: no request is out without a task, and from the spawn until the
\* request's result the flag is false.
C6_StartBeforeCall ==
    \A c \in Dispatched :
        LET s == cs[c] IN
        s.cmd = "Qwen" =>
            /\ s.posts > 0 => s.sig # "none"
            /\ s.pc \in {"start", "spawned"} => s.posts = 0
            /\ s.pc \in {"spawned", "posted"} => ~s.flag /\ s.sig # "none"
            /\ s.pc = "posted" => s.posts = 1

C6_Witness ==
    \E c \in Dispatched :
        /\ cs[c].cmd = "Qwen" /\ cs[c].pc = "posted" /\ cs[c].posts = 1
        /\ cs[c].sig = "sleep" /\ ~cs[c].flag

\* C7: whenever the handler of a Qwen command has sent its message and
\* returned, that command's task has already ended.
C7_SignalerNeverOutlives ==
    \A c \in Dispatched :
        (cs[c].cmd = "Qwen" /\ cs[c].pc = "done") => Ended(cs[c])

\* C8: once the flag of a Qwen command is set its task ends, and it does so
\* within one wait interval plus the latency of one signal send: a task still
\* alive with the flag set has lived at most that long since the store.
C8_ExitsWithinInterval ==
    /\ [](\A c \in Dispatched :
            (cs[c].flag /\ ~Ended(cs[c])) => cs[c].stopAge <= WaitInterval + MaxSendLatency)
    /\ \A c \in Dispatched : cs[c].flag ~> Ended(cs[c])

C8_Witness ==
    \E c \in Dispatched :
        /\ cs[c].flag /\ cs[c].sig = "exited"
        /\ cs[c].stopAge = WaitInterval + MaxSendLatency

\* C9: a Qwen command whose HTTP send took longer than one wait interval has
\* had at least one typing signal emitted by the time the send resolves, unless
\* the task's signal send failed.
C9_SignalWhenSlow ==
    \A c \in Dispatched :
        LET s == cs[c] IN
        (s.cmd = "Qwen" /\ s.pc \in {"read", "reply", "done"} /\ s.callAge > WaitInterval) =>
            \/ s.typing >= 1
            \/ s.sig = "panicked"
            \/ s.sig = "sending" /\ ~s.sigOk

C9_Witness ==
    \E c \in Dispatched :
        /\ cs[c].cmd = "Qwen" /\ cs[c].pc = "read" /\ cs[c].callAge > WaitInterval
        /\ cs[c].typing = 1 /\ cs[c].late = 0

\* the status field and the slot counts of the well-formed health bodies
C10_StatusField(body) ==
    CASE body \in {BodyOkSlots, BodyOk} -> "ok"
      [] body \in {BodyNoSlot, BodyNoSlotNull} -> "no slot available"
      [] body = BodyLoading -> "loading model"
      [] body = BodyError -> "error"
      [] body = BodyOther -> "something else"
      [] OTHER -> "?"

C10_Slots(body) ==
    CASE body = BodyOkSlots -> "Slots idle: 3, Slots processing: 1"
      [] body = BodyNoSlot -> "Slots idle: 0, Slots processing: 2"
      [] OTHER -> "Slots idle: 0, Slots processing: 0"

C10_WellFormed ==
    {BodyOkSlots, BodyOk, BodyNoSlot, BodyNoSlotNull, BodyLoading, BodyError, BodyOther}

C10_Table(status, body) ==
    LET f == C10_StatusField(body) IN
    CASE status = 200 /\ f = "ok" -> "Everything is working fine. " \o C10_Slots(body)
      [] status \in {200, 503} /\ f = "no slot available" ->
           "No slots are currently available. " \o C10_Slots(body)
      [] status = 503 /\ f = "loading model" -> "The model is still being loaded. Please wait."
      [] status = 500 /\ f = "error" -> "An error occurred while loading the model."
      [] OTHER -> "Unknown status: " \o f

\* C10: for status 200, 503 or 500 and a well-formed health body the outcome is
\* the one of the table; other status values give "Unknown status: <value>";
\* absent slot counts show as 0.
C10_HealthTable ==
    \A c \in Dispatched :
        LET s == cs[c] IN
        (s.cmd = "Health" /\ s.readRes = "ok" /\ s.status \in {200, 503, 500}
           /\ s.body \in C10_WellFormed) =>
            /\ s.pc \in {"reply", "done"}
            /\ s.out = C10_Table(s.status, s.body)
            /\ s.pc = "done" => s.sent = <<C10_Table(s.status, s.body)>>

C10_Witness ==
    \E c \in Dispatched :
        /\ cs[c].cmd = "Health" /\ cs[c].pc = "done"
        /\ cs[c].status = 503 /\ cs[c].body = BodyNoSlotNull
        /\ cs[c].sent = <<"No slots are currently available. Slots idle: 0, Slots processing: 0">>

\* C11 as stated: for a status other than 200, 503 and 500 the outcome is
\* "Unexpected status: " followed by the numeric code alone.
C11_NumericCodeAlone ==
    \A c \in Dispatched :
        LET s == cs[c] IN
        (s.cmd = "Health" /\ s.readRes = "ok" /\ s.status \notin {200, 503, 500}) =>
            s.out = "Unexpected status: " \o ToString(s.status)

\* C11 as amended: for a status other than 200, 503 and 500 the outcome is
\* "Unexpected status: " followed by the code and its canonical reason phrase,
\* whatever the body is, valid JSON or not; the handler does not panic there.
C11_UnexpectedStatus ==
    \A c \in Dispatched :
        LET s == cs[c] IN
        (s.cmd = "Health" /\ s.readRes = "ok" /\ s.status \notin {200, 503, 500}) =>
            /\ s.pc \in {"reply", "done"}
            /\ s.status = 404 => s.out = "Unexpected status: 404 Not Found"
            /\ s.status = 502 => s.out = "Unexpected status: 502 Bad Gateway"
            /\ s.status \in {404, 502}
            /\ s.pc = "done" => s.sent = <<s.out>>

C11_Witness ==
    \E c \in Dispatched :
        /\ cs[c].cmd = "Health" /\ cs[c].pc = "done"
        /\ cs[c].status = 404 /\ cs[c].body = BodyNotJson
        /\ cs[c].sent = <<"Unexpected status: 404 Not Found">>

\* the failure kind of a finished Qwen command, read off what the backend did
C12_Kind(s) ==
    CASE s.sendRes = "err" -> "send-error"
      [] s.readRes = "err" -> "read-error"
      [] s.body \in {BodyNotJson, BodyTruncated} -> "parse-error"
      [] s.body \in {BodyNoChoices, BodyNumContent, BodyBackendError, BodyOther} -> "shape-error"
      [] OTHER -> "none"

C12_Failed(s) == s.cmd = "Qwen" /\ s.pc = "done" /\ C12_Kind(s) # "none"

\* C12 as stated: two commands that failed with different failure kinds sent
\* different texts.
C12_DistinctMessages ==
    \A c, d \in Cmds :
        (C12_Failed(cs[c]) /\ C12_Failed(cs[d]) /\ C12_Kind(cs[c]) # C12_Kind(cs[d])) =>
            cs[c].sent # cs[d].sent

\* C12 as amended: two commands that failed with different failure kinds sent
\* different texts, except that parse-error and shape-error share one text.
C12_DistinctButParseShape ==
    \A c, d \in Cmds :
        (C12_Failed(cs[c]) /\ C12_Failed(cs[d]) /\ C12_Kind(cs[c]) # C12_Kind(cs[d])) =>
            IF {C12_Kind(cs[c]), C12_Kind(cs[d])} = {"parse-error", "shape-error"}
            THEN cs[c].sent = cs[d].sent
            ELSE cs[c].sent # cs[d].sent

C12_Witness ==
    /\ C12_Failed(cs[1]) /\ C12_Failed(cs[2])
    /\ C12_Kind(cs[1]) = "send-error" /\ C12_Kind(cs[2]) = "read-error"
    /\ cs[1].sent # cs[2].sent

\* C13: with two Qwen commands handled at once each has its own flag and task:
\* a step changes one command only; a flag is set only by its own command's
\* main flow; a task leaves its loop only on its own flag and panics only on
\* its own failed signal send; each command's reply is decided by its own
\* backend answers.
C13_Independent ==
    /\ [][\A c \in Cmds :
            /\ cs'[c] # cs[c] => \A d \in Cmds \ {c} : cs'[d] = cs[d]
            /\ cs'[c].flag # cs[c].flag => cs[c].pc = "posted" /\ cs'[c].pc \in {"read", "reply"}
            /\ (cs'[c].sig = "exited" /\ cs[c].sig # "exited") => cs[c].flag
            /\ (cs'[c].sig = "panicked" /\ cs[c].sig # "panicked") =>
                 cs[c].sig = "sending" /\ ~cs[c].sigOk
            /\ (cs[c].sig \in {"check", "sleep", "sending"} /\ ~cs'[c].flag) =>
                 cs'[c].sig \in {"check", "sleep", "sending", "panicked"}]_vars
    /\ [](\A c \in Cmds :
            cs[c].pc = "done" =>
                cs[c].sent = <<CASE cs[c].sendRes = "err" -> "An error occurred while sending the request."
                                 [] cs[c].readRes = "err" -> "An error occurred while reading the response."
                                 [] cs[c].body = BodyHello -> "hello"
                                 [] OTHER -> "An error occurred while parsing the response.">>)

C13_Witness ==
    /\ cs[1].pc = "done" /\ cs[1].sendRes = "err" /\ cs[1].flag /\ cs[1].sig = "exited"
    /\ cs[2].pc = "posted" /\ ~cs[2].flag /\ cs[2].sig = "sleep" /\ cs[2].typing >= 1

\* a step of the main flow of c is possible
C14_MainCanStep(c) ==
    ENABLED (QwenPost(c) \/ QwenSendResolved(c) \/ QwenBodyRead(c) \/ Reply(c))

\* C14: a failed signal send ends the task only: the handler of a Qwen command
\* never panics, after the task's panic its main flow can still take every
\* step up to its one message, and the dead task emits nothing more.
C14_SignalFailureContained ==
    /\ [](\A c \in Dispatched :
            LET s == cs[c] IN
            s.cmd = "Qwen" =>
                /\ s.pc # "panicked"
                /\ (s.sig = "panicked" /\ s.pc \in {"spawned", "posted", "read", "reply"}) =>
                     C14_MainCanStep(c)
                /\ (s.sig = "panicked" /\ s.pc = "done") =>
                     /\ Len(s.sent) = 1
                     /\ s.sendRes = "err" => s.sent[1] = "An error occurred while sending the request."
                     /\ s.body = BodyHello => s.sent[1] = "hello")
    /\ [][\A c \in Dispatched :
            cs[c].sig = "panicked" =>
                /\ cs'[c].sig = "panicked"
                /\ cs'[c].typing = cs[c].typing
                /\ cs'[c].late = cs[c].late]_vars

C14_Witness ==
    \E c \in Dispatched :
        /\ cs[c].cmd = "Qwen" /\ cs[c].sig = "panicked" /\ cs[c].typing = 0
        /\ cs[c].pc = "done" /\ cs[c].body = BodyHello /\ cs[c].sent = <<"hello">>

\* C15: no text message is sent before the command has its terminal result:
\* nothing is sent while the request is in flight or the body unread, and the
\* message that is sent is the one the result determined.
C15_NoMessageBeforeResult ==
    \A c \in Dispatched :
        LET s == cs[c] IN
        /\ s.pc \in {"start", "spawned", "posted", "read", "hread", "reply", "panicked"} =>
             s.sent = <<>>
        /\ Len(s.sent) > 0 =>
             /\ s.pc = "done"
             /\ s.sent = <<s.out>>
             /\ s.cmd \in {"Qwen", "Health"} =>
                  /\ s.sendRes \in {"ok", "err"}
                  /\ s.sendRes = "ok" => s.readRes \in {"ok", "err"}

C15_Witness ==
    \E c \in Dispatched :
        /\ cs[c].cmd = "Qwen" /\ cs[c].pc = "posted"
        /\ cs[c].typing >= 1 /\ cs[c].sent = <<>>

\* C16: a Qwen command issues exactly one HTTP request: one once the request
\* is out, never a second one after a failure, and nothing after its message.
C16_OneAttempt ==
    /\ [](\A c \in Dispatched :
            LET s == cs[c] IN
            s.cmd = "Qwen" =>
                /\ s.posts <= 1
                /\ s.pc \in {"posted", "read", "reply", "done"} => s.posts = 1)
    /\ [][\A c \in Dispatched :
            cs[c].cmd = "Qwen" =>
                /\ cs[c].posts = 1 => cs'[c].posts = 1
                /\ cs[c].pc = "done" =>
                     cs'[c].pc = "done" /\ cs'[c].sent = cs[c].sent]_vars

C16_Witness ==
    \E c \in Dispatched :
        /\ cs[c].cmd = "Qwen" /\ cs[c].pc = "done" /\ cs[c].readRes = "err"
        /\ cs[c].posts = 1 /\ Len(cs[c].sent) = 1

\* C17: a Health command answered with status 200, 503 or 500 and a body that
\* is no {status, slots_idle?, slots_processing?} panics at the deserialization
\* and sends nothing.
C17_HealthPanics ==
    \A c \in Dispatched :
        LET s == cs[c] IN
        (s.cmd = "Health" /\ s.readRes = "ok" /\ s.status \in {200, 503, 500}
           /\ s.body \in {BodyNoStatus, BodyNegSlots, BodyStatusNum, BodyNotJson, BodyHello}) =>
            /\ s.pc = "panicked"
            /\ s.sent = <<>>
            /\ s.out = ""
            /\ s.ret = "none"

C17_Witness ==
    \E c \in Dispatched :
        /\ cs[c].cmd = "Health" /\ cs[c].pc = "panicked"
        /\ cs[c].status = 503 /\ cs[c].body = BodyNegSlots /\ cs[c].sent = <<>>

\* C18: once the flag is set the task emits at most one more typing signal and
\* then exits: the load that sees the flag set leaves the loop, and no sleep
\* begins while the flag is set.
C18_AtMostOneLate ==
    /\ [](\A c \in Dispatched : cs[c].late <= 1)
    /\ [][\A c \in Dispatched :
            cs[c].flag =>
                /\ (cs[c].sig = "check" /\ cs'[c].sig # "check") => cs'[c].sig = "exited"
                /\ cs'[c].sig = "sleep" => cs[c].sig = "sleep"]_vars

C18_Witness ==
    \E c \in Dispatched : cs[c].late = 1 /\ cs[c].sig = "exited"

\* the reply a body leads to
C19_ByBody(body) ==
    CASE body = BodyHello -> "hello"
      [] body = BodyEmptyContent -> ""
      [] OTHER -> "An error occurred while parsing the response."

\* C19: once a response has been received the reply of a Qwen command follows
\* from the body alone, whatever the status code: it is never the send-error
\* text, and with the body read it is the content or the parse-error text.
C19_StatusIgnored ==
    \A c \in Dispatched :
        LET s == cs[c] IN
        (s.cmd = "Qwen" /\ s.status # 0) =>
            /\ s.out # "An error occurred while sending the request."
            /\ s.readRes = "ok" => s.out = C19_ByBody(s.body)
            /\ s.pc = "done" => s.sent = <<s.out>>

C19_Witness ==
    \E c \in Dispatched :
        /\ cs[c].cmd = "Qwen" /\ cs[c].pc = "done" /\ cs[c].status = 500
        /\ cs[c].body = BodyHello /\ cs[c].sent = <<"hello">>

====
